---- MODULE Spec2Model ----
(***************************************************************************)
(* Redirect handling of rquest (src/src/redirect.rs): the redirect Policy, *)
(* the Attempt handed to it, the Action it produces, and the removal of    *)
(* sensitive headers on a cross-host hop.                                  *)
(*                                                                         *)
(* Two specifications drive the code the way its unit tests do:            *)
(*   Spec        a Policy is built, a vector of previous URLs is built and *)
(*               grown with push, and Policy::check is called on it;       *)
(*   SpecRedact  a HeaderMap and a vector of previous URLs are built, and  *)
(*               Policy::remove_sensitive_headers is applied to the map    *)
(*               again and again while the vector grows.                   *)
(* The request chain that uses the policy between hops is modelled by      *)
(*   SpecChain   one chain: a redirect response is evaluated by the policy *)
(*               and the chain issues the next hop, returns the redirect   *)
(*               response or aborts;                                       *)
(*   SpecLoop    the same chain against servers that always redirect, with *)
(*               weak fairness of its steps;                               *)
(*   SpecShared  two chains sharing one Policy.                            *)
(* The trust store of src/src/tls/certs/load.rs is modelled by             *)
(*   SpecCerts   connections that access the lazily built LOAD_CERTS.      *)
(* The received body of src/src/core/body/mod.rs is modelled by            *)
(*   SpecBody    a transport that sends frames and a reader that polls.    *)
(***************************************************************************)
EXTENDS Integers, Sequences, FiniteSets, TLC

(***************************************************************************)
(* Bounds of the model.                                                    *)
(***************************************************************************)
\* largest max given to Policy::limited
MaxLimit == 3
\* largest number of http://a.b/c/<i> URLs the previous vector is built with
MaxFill == 11
\* largest number of further URLs pushed onto the previous vector
MaxPush == 1
\* largest number of requests one chain issues
MaxHops == 12
\* largest number of data frames the transport sends for one body
MaxFrames == 3

(***************************************************************************)
(* Option<T>                                                               *)
(***************************************************************************)
None == <<>>
Some(x) == <<x>>

(***************************************************************************)
(* Url.  A parsed URL keeps its scheme, host, port and path; Url::parse    *)
(* drops a port that is the default port of the scheme.                    *)
(***************************************************************************)
default_port(scheme) ==
    CASE scheme = "http"  -> Some(80)
      [] scheme = "ws"    -> Some(80)
      [] scheme = "https" -> Some(443)
      [] scheme = "wss"   -> Some(443)
      [] scheme = "ftp"   -> Some(21)
      [] OTHER            -> None

UrlParse(scheme, host, port, path) ==
    [scheme |-> scheme,
     host   |-> host,
     port   |-> IF port = default_port(scheme) THEN None ELSE port,
     path   |-> path]

host_str(u) == Some(u.host)

port_or_known_default(u) ==
    IF u.port # None THEN u.port ELSE default_port(u.scheme)

\* The URLs given as next and pushed onto the previous vector.
Urls ==
    { UrlParse("http",  "bar", None,      "/baz"),
      UrlParse("http",  "foo", None,      "/baz"),
      UrlParse("http",  "foo", Some(80),  "/z"),
      UrlParse("https", "foo", None,      "/baz"),
      UrlParse("http",  "foo", Some(443), "/baz") }

\* http://a.b/c/<i>
FillUrl(i) == UrlParse("http", "a.b", None, "/c/" \o ToString(i))

\* (0..n-1).map(|i| http://a.b/c/<i>).collect()
Filled(n) == [i \in 1..n |-> FillUrl(i - 1)]

\* the methods of test_redirect_custom_policy_methods
Methods == {"HEAD", "PUT"}

\* 301 Moved Permanently, 302 Found
StatusCodes == {301, 302}

(***************************************************************************)
(* Action / ActionKind and the error causes.                               *)
(***************************************************************************)
Follow == [kind |-> "Follow"]
Stop == [kind |-> "Stop"]
Error(cause) == [kind |-> "Error", cause |-> cause]

\* the unit struct TooManyRedirects
TooManyRedirects == [type |-> "TooManyRedirects"]
\* a &str turned into a boxed error
StrError(msg) == [type |-> "String", msg |-> msg]

Display(cause) ==
    IF cause.type = "TooManyRedirects" THEN "too many redirects" ELSE cause.msg

(***************************************************************************)
(* Attempt and its accessors.                                              *)
(***************************************************************************)
Attempt(st, nm, n, pm, p) ==
    [status |-> st, next_method |-> nm, next |-> n,
     previous_method |-> pm, previous |-> p]

status(a) == a.status
next_method(a) == a.next_method
url(a) == a.next
previous_method(a) == a.previous_method
previous(a) == a.previous

follow(a) == Follow

\* stop returning an Error action
stop_as_error(a) == Error(StrError("stopped"))

stop(a) == Stop
error(a, e) == Error(e)

(***************************************************************************)
(* Policy.                                                                 *)
(***************************************************************************)
limited(max) == [inner |-> [kind |-> "Limit", max |-> max]]
none == [inner |-> [kind |-> "None"]]
custom(f) == [inner |-> [kind |-> "Custom", f |-> f]]

DefaultMax == 10

\* Default out of step with the documented ten hops
PolicyDefault_nine == limited(DefaultMax - 1)

PolicyDefault == limited(DefaultMax)

\* The closures given to Policy::custom in the source.
CustomFns == {"stop_on_foo", "doc_limit", "wrap_default"}

\* redirect_limit comparing with >= : the hop at exactly max is refused
redirect_limit_ge(max, attempt) ==
    IF Len(attempt.previous) >= max
    THEN error(attempt, TooManyRedirects)
    ELSE follow(attempt)

\* redirect_limit leaving the initial URL out of the count
redirect_limit_skip_first(max, attempt) ==
    IF Len(attempt.previous) - 1 > max
    THEN error(attempt, TooManyRedirects)
    ELSE follow(attempt)

\* redirect_limit that never enforces the limit
redirect_limit_follow(max, attempt) == follow(attempt)

\* redirect_limit that also refuses a next URL already in the history
redirect_limit_loop(max, attempt) ==
    IF \/ Len(attempt.previous) > max
       \/ \E i \in DOMAIN attempt.previous : attempt.previous[i] = attempt.next
    THEN error(attempt, TooManyRedirects)
    ELSE follow(attempt)

redirect_limit(max, attempt) ==
    IF Len(attempt.previous) > max
    THEN error(attempt, TooManyRedirects)
    ELSE follow(attempt)

\* |attempt| if attempt.url().host_str() == Some("foo") { stop } else { follow }
stop_on_foo(attempt) ==
    IF host_str(url(attempt)) = Some("foo") THEN stop(attempt) ELSE follow(attempt)

\* the closure of the documentation of Policy::custom
doc_limit(attempt) ==
    IF Len(previous(attempt)) > 5
    THEN error(attempt, StrError("too many redirects"))
    ELSE IF host_str(url(attempt)) = Some("example.domain")
         THEN stop(attempt)
         ELSE follow(attempt)

\* the closure of the documentation of Policy::redirect: it prints the
\* attempt and hands it to Policy::default().redirect
wrap_default(attempt) == redirect_limit(PolicyDefault.inner.max, attempt)

CustomCall(f, attempt) ==
    CASE f = "stop_on_foo"  -> stop_on_foo(attempt)
      [] f = "doc_limit"    -> doc_limit(attempt)
      [] f = "wrap_default" -> wrap_default(attempt)

\* redirect with the None arm following
redirect_none_follows(self, attempt) ==
    CASE self.inner.kind = "Custom" -> CustomCall(self.inner.f, attempt)
      [] self.inner.kind = "Limit"  -> redirect_limit(self.inner.max, attempt)
      [] self.inner.kind = "None"   -> follow(attempt)

\* redirect applying the default hop limit before the custom closure
redirect_custom_limited(self, attempt) ==
    CASE self.inner.kind = "Custom" ->
             IF Len(attempt.previous) > DefaultMax
             THEN error(attempt, TooManyRedirects)
             ELSE CustomCall(self.inner.f, attempt)
      [] self.inner.kind = "Limit"  -> redirect_limit(self.inner.max, attempt)
      [] self.inner.kind = "None"   -> stop(attempt)

redirect(self, attempt) ==
    CASE self.inner.kind = "Custom" -> CustomCall(self.inner.f, attempt)
      [] self.inner.kind = "Limit"  -> redirect_limit(self.inner.max, attempt)
      [] self.inner.kind = "None"   -> stop(attempt)

\* The attempts the custom closure is invoked with while redirect runs.
redirect_calls(self, attempt) ==
    IF self.inner.kind = "Custom" THEN <<attempt>> ELSE <<>>

\* check building the Attempt with the two methods swapped
check_attempt_swapped(st, nm, n, pm, p) == Attempt(st, pm, n, nm, p)

check_attempt(st, nm, n, pm, p) == Attempt(st, nm, n, pm, p)

check(self, st, nm, n, pm, p) == redirect(self, check_attempt(st, nm, n, pm, p))

(***************************************************************************)
(* HeaderMap: a map from lower-case header names to their values.          *)
(***************************************************************************)
AUTHORIZATION == "authorization"
COOKIE == "cookie"
PROXY_AUTHORIZATION == "proxy-authorization"
WWW_AUTHENTICATE == "www-authenticate"
ACCEPT == "accept"

HeaderNames ==
    {ACCEPT, AUTHORIZATION, COOKIE, "cookie2", PROXY_AUTHORIZATION, WWW_AUTHENTICATE}

\* the values a header is inserted with
HeaderValueOf(name) ==
    CASE name = ACCEPT              -> <<"*/*">>
      [] name = AUTHORIZATION       -> <<"let me in">>
      [] name = COOKIE              -> <<"foo=bar", "a=b">>
      [] name = "cookie2"           -> <<"$Version=1">>
      [] name = PROXY_AUTHORIZATION -> <<"Basic cHJveHk=">>
      [] name = WWW_AUTHENTICATE    -> <<"Basic">>

HeaderMapOf(names) == [n \in names |-> HeaderValueOf(n)]

\* HeaderMap::remove: every value of the name goes
remove(h, name) == [n \in (DOMAIN h) \ {name} |-> h[n]]

Strip(h) ==
    remove(remove(remove(remove(remove(h,
        AUTHORIZATION), COOKIE), "cookie2"),
        PROXY_AUTHORIZATION), WWW_AUTHENTICATE)

\* remove_sensitive_headers with && for || : host and port must both differ
remove_sensitive_headers_and(h, n, p) ==
    IF p # <<>>
    THEN LET last == p[Len(p)]
             cross_host == /\ host_str(n) # host_str(last)
                           /\ port_or_known_default(n) # port_or_known_default(last)
         IN IF cross_host THEN Strip(h) ELSE h
    ELSE h

\* remove_sensitive_headers comparing port() for port_or_known_default()
remove_sensitive_headers_port(h, n, p) ==
    IF p # <<>>
    THEN LET last == p[Len(p)]
             cross_host == \/ host_str(n) # host_str(last)
                           \/ n.port # last.port
         IN IF cross_host THEN Strip(h) ELSE h
    ELSE h

\* remove_sensitive_headers taking a missing predecessor for a cross-host hop
remove_sensitive_headers_empty(h, n, p) ==
    IF p # <<>>
    THEN LET last == p[Len(p)]
             cross_host == \/ host_str(n) # host_str(last)
                           \/ port_or_known_default(n) # port_or_known_default(last)
         IN IF cross_host THEN Strip(h) ELSE h
    ELSE Strip(h)

\* remove_sensitive_headers comparing with previous.first()
remove_sensitive_headers_first(h, n, p) ==
    IF p # <<>>
    THEN LET first == p[1]
             cross_host == \/ host_str(n) # host_str(first)
                           \/ port_or_known_default(n) # port_or_known_default(first)
         IN IF cross_host THEN Strip(h) ELSE h
    ELSE h

\* remove_sensitive_headers blanking the values instead of removing the headers
remove_sensitive_headers_blank(h, n, p) ==
    IF p # <<>>
    THEN LET last == p[Len(p)]
             cross_host == \/ host_str(n) # host_str(last)
                           \/ port_or_known_default(n) # port_or_known_default(last)
         IN IF cross_host
            THEN [k \in DOMAIN h |->
                     IF k \in {AUTHORIZATION, COOKIE, "cookie2",
                                PROXY_AUTHORIZATION, WWW_AUTHENTICATE}
                     THEN <<"">> ELSE h[k]]
            ELSE h
    ELSE h

remove_sensitive_headers(h, n, p) ==
    IF p # <<>>
    THEN LET last == p[Len(p)]
             cross_host == \/ host_str(n) # host_str(last)
                           \/ port_or_known_default(n) # port_or_known_default(last)
         IN IF cross_host THEN Strip(h) ELSE h
    ELSE h

(***************************************************************************)
(* State.                                                                  *)
(***************************************************************************)
VARIABLES
    policy,     \* the Policy under test
    prev,       \* the vector of previous URLs
    headers,    \* the HeaderMap under test
    args,       \* the arguments of the check call whose result is held
    action,     \* the ActionKind that call returned
    seen,       \* the attempts the custom closure was invoked with in that call
    redacted,   \* the next URL and the headers before the latest redaction
    pushes,     \* the number of URLs pushed onto prev since it was built
    chains,     \* the request chains of the client, by chain id
    certs,      \* the LOAD_CERTS static and the connections that access it
    body        \* a received body: the frames sent, buffered and delivered

vars == <<policy, prev, headers, args, action, seen, redacted, pushes, chains,
          certs, body>>

NoArgs == <<>>
NoAction == [kind |-> "NoAction"]
NoRedact == <<>>
NoChains == <<>>
NoCerts == <<>>
NoBody == <<>>

Policies ==
    {limited(m) : m \in 0..MaxLimit} \cup {PolicyDefault, none}
        \cup {custom(f) : f \in CustomFns}

\* the header map of test_remove_sensitive_headers
TestHeaders == HeaderMapOf({ACCEPT, AUTHORIZATION, COOKIE})

Init ==
    /\ policy \in Policies
    /\ \E n \in 0..MaxFill : prev = Filled(n)
    /\ headers = TestHeaders
    /\ args = NoArgs
    /\ action = NoAction
    /\ seen = <<>>
    /\ redacted = NoRedact
    /\ pushes = 0
    /\ chains = NoChains
    /\ certs = NoCerts
    /\ body = NoBody

\* the vector starts as vec![] or as vec![u], as in test_remove_sensitive_headers
InitRedact ==
    /\ policy = PolicyDefault
    /\ prev \in {<<>>} \cup {<<u>> : u \in Urls}
    /\ headers \in {HeaderMapOf(s) : s \in SUBSET HeaderNames}
    /\ args = NoArgs
    /\ action = NoAction
    /\ seen = <<>>
    /\ redacted = NoRedact
    /\ pushes = 0
    /\ chains = NoChains
    /\ certs = NoCerts
    /\ body = NoBody

\* previous.push(u): the results held for the shorter vector are dropped
Push(u) ==
    /\ pushes < MaxPush
    /\ pushes' = pushes + 1
    /\ prev' = Append(prev, u)
    /\ args' = NoArgs
    /\ action' = NoAction
    /\ seen' = <<>>
    /\ redacted' = NoRedact
    /\ UNCHANGED <<policy, headers, chains, certs, body>>

\* policy.check(status, &next_method, &next, &previous_method, &previous)
Check(st, nm, n, pm) ==
    /\ args' = [status |-> st, next_method |-> nm, next |-> n, previous_method |-> pm]
    /\ action' = check(policy, st, nm, n, pm, prev)
    /\ seen' = redirect_calls(policy, check_attempt(st, nm, n, pm, prev))
    /\ UNCHANGED <<policy, prev, headers, redacted, pushes, chains, certs, body>>

\* Policy::remove_sensitive_headers(&mut headers, &next, &previous)
RemoveSensitive(n) ==
    /\ headers' = remove_sensitive_headers(headers, n, prev)
    /\ redacted' = <<[next |-> n, before |-> headers]>>
    /\ UNCHANGED <<policy, prev, args, action, seen, pushes, chains, certs, body>>

Next ==
    \/ \E u \in Urls : Push(u)
    \/ \E st \in StatusCodes, nm \in Methods, n \in Urls, pm \in Methods :
           Check(st, nm, n, pm)

NextRedact ==
    \/ \E u \in Urls : Push(u)
    \/ \E n \in Urls : RemoveSensitive(n)

Spec == Init /\ [][Next]_vars

SpecRedact == InitRedact /\ [][NextRedact]_vars

(***************************************************************************)
(* The request chain.  A chain has issued a request and awaits its         *)
(* response; a redirect response is evaluated by the policy at once, and   *)
(* the chain then issues the next request (Follow), returns the redirect   *)
(* response (Stop) or fails with the cause (Error).                        *)
(***************************************************************************)
\* the URLs the servers redirect to
ChainUrls ==
    { UrlParse("http", "bar", None, "/baz"),
      UrlParse("http", "foo", None, "/baz") }

ChainMethod == "GET"

\* the status of a response that is not a redirect
StatusOk == 200

Ok(resp) == [kind |-> "Ok", response |-> resp]
Err(cause) == [kind |-> "Err", cause |-> cause]
NoResult == [kind |-> "NoResult"]

Response(st, u) == [status |-> st, url |-> u]

\* the chain that has just issued its first request, to u
NewChain(u) ==
    [url     |-> u,
     method  |-> ChainMethod,
     urls    |-> <<u>>,
     headers |-> TestHeaders,
     issued  |-> 1,
     state   |-> "awaiting",
     status  |-> StatusOk,
     loc     |-> None,
     action  |-> NoAction,
     result  |-> NoResult]

InitHarness ==
    /\ prev = <<>>
    /\ headers = TestHeaders
    /\ args = NoArgs
    /\ action = NoAction
    /\ seen = <<>>
    /\ redacted = NoRedact
    /\ pushes = 0

InitChain ==
    /\ policy \in Policies
    /\ InitHarness
    /\ certs = NoCerts
    /\ body = NoBody
    /\ \E u \in ChainUrls : chains = [c \in {1} |-> NewChain(u)]

\* the policies of the clients that run two chains
SharedPolicies ==
    {limited(m) : m \in 0..MaxLimit} \cup {none, custom("stop_on_foo")}

InitShared ==
    /\ policy \in SharedPolicies
    /\ InitHarness
    /\ certs = NoCerts
    /\ body = NoBody
    /\ \E u \in ChainUrls, v \in ChainUrls :
           chains = [c \in {1, 2} |-> IF c = 1 THEN NewChain(u) ELSE NewChain(v)]

Harness == <<prev, headers, args, action, seen, redacted, pushes>>

\* the chain with the redirect response evaluated by the policy
evaluate(ch, pol, st, loc) ==
    [ch EXCEPT !.state  = "decided",
               !.status = st,
               !.loc    = Some(loc),
               !.action = check(pol, st, ch.method, loc, ch.method, ch.urls)]

\* the response to the request in flight is a redirect to loc: the policy
\* is evaluated on it
Redirected(c, st, loc) ==
    /\ chains[c].state = "awaiting"
    /\ Len(chains[c].urls) < MaxHops
    /\ chains' = [chains EXCEPT ![c] = evaluate(@, policy, st, loc)]
    /\ UNCHANGED <<policy, Harness, certs, body>>

\* issue_next that leaves the new URL out of the history
issue_next_unrecorded(ch) ==
    [ch EXCEPT !.state   = "awaiting",
               !.headers = remove_sensitive_headers(ch.headers, ch.loc[1], ch.urls),
               !.url     = ch.loc[1],
               !.issued  = ch.issued + 1,
               !.loc     = None]

\* the chain with the next request issued after a Follow
issue_next(ch) ==
    [ch EXCEPT !.state   = "awaiting",
               !.headers = remove_sensitive_headers(ch.headers, ch.loc[1], ch.urls),
               !.url     = ch.loc[1],
               !.urls    = Append(ch.urls, ch.loc[1]),
               !.issued  = ch.issued + 1,
               !.loc     = None]

\* Follow: the headers are redacted and the next request is issued
IssueNext(c) ==
    /\ chains[c].state = "decided"
    /\ chains[c].action = Follow
    /\ chains' = [chains EXCEPT ![c] = issue_next(@)]
    /\ UNCHANGED <<policy, Harness, certs, body>>

\* the chain ended by a Stop: the redirect response is the Ok result
return_response(ch) ==
    [ch EXCEPT !.state  = "done",
               !.result = Ok(Response(ch.status, ch.url))]

ReturnResponse(c) ==
    /\ chains[c].state = "decided"
    /\ chains[c].action = Stop
    /\ chains' = [chains EXCEPT ![c] = return_response(@)]
    /\ UNCHANGED <<policy, Harness, certs, body>>

\* the chain ended by an Error: the cause is the result
abort(ch) ==
    [ch EXCEPT !.state  = "done",
               !.result = Err(ch.action.cause)]

Abort(c) ==
    /\ chains[c].state = "decided"
    /\ chains[c].action.kind = "Error"
    /\ chains' = [chains EXCEPT ![c] = abort(@)]
    /\ UNCHANGED <<policy, Harness, certs, body>>

\* the chain ended by a response that is not a redirect
finish(ch) ==
    [ch EXCEPT !.state  = "done",
               !.status = StatusOk,
               !.result = Ok(Response(StatusOk, ch.url))]

\* the response to the request in flight is not a redirect: it is the result
Finished(c) ==
    /\ chains[c].state = "awaiting"
    /\ chains' = [chains EXCEPT ![c] = finish(@)]
    /\ UNCHANGED <<policy, Harness, certs, body>>

NextLoop ==
    \/ \E c \in DOMAIN chains, st \in StatusCodes, loc \in ChainUrls :
           Redirected(c, st, loc)
    \/ \E c \in DOMAIN chains : IssueNext(c)
    \/ \E c \in DOMAIN chains : ReturnResponse(c)
    \/ \E c \in DOMAIN chains : Abort(c)

NextChain ==
    \/ NextLoop
    \/ \E c \in DOMAIN chains : Finished(c)

SpecChain == InitChain /\ [][NextChain]_vars

SpecLoop == InitChain /\ [][NextLoop]_vars /\ WF_vars(NextLoop)

SpecShared == InitShared /\ [][NextChain]_vars

(***************************************************************************)
(* The trust store (src/src/tls/certs/load.rs).  LOAD_CERTS is a LazyLock: *)
(* the first access runs the closure, accesses made meanwhile wait, and    *)
(* every access reads the value the closure left.                          *)
(***************************************************************************)
\* the connections that access LOAD_CERTS
Conns == {"c1", "c2", "c3"}

\* the builds: at least one of the two features is enabled
FeatureSets == {{"webpki-roots"}, {"native-roots"}, {"webpki-roots", "native-roots"}}

\* selected_source preferring the native store
selected_source_native(features) ==
    IF "native-roots" \in features THEN "native" ELSE "webpki"

\* the source the cfg attributes compile in
selected_source(features) ==
    IF "webpki-roots" \in features THEN "webpki" ELSE "native"

\* CertStore::from_der_certs(..): Ok(store) or Err(err)
LoadOk(src) == [ok |-> TRUE, store |-> src]
LoadErr(src) == [ok |-> FALSE, err |-> src]

\* match res with the Err arm unwrapping: the failure leaves the closure
match_res_unwrap(res) ==
    IF res.ok
    THEN [value |-> Some(res.store), logged |-> 0, panicked |-> FALSE]
    ELSE [value |-> None, logged |-> 0, panicked |-> TRUE]

\* match res { Ok(store) => Some(store), Err(err) => { log::error!(..); None } }
match_res(res) ==
    IF res.ok
    THEN [value |-> Some(res.store), logged |-> 0, panicked |-> FALSE]
    ELSE [value |-> None, logged |-> 1, panicked |-> FALSE]

\* force taking a running initialisation for none: the closure runs again
force_unguarded(once) ==
    CASE once = "incomplete" -> "run"
      [] once = "running"    -> "run"
      [] once = "complete"   -> "read"
      [] once = "poisoned"   -> "panic"

\* what an access does in each state of the LazyLock
force(once) ==
    CASE once = "incomplete" -> "run"
      [] once = "running"    -> "wait"
      [] once = "complete"   -> "read"
      [] once = "poisoned"   -> "panic"

InitCerts ==
    /\ policy = PolicyDefault
    /\ InitHarness
    /\ chains = NoChains
    /\ body = NoBody
    /\ \E f \in FeatureSets :
           certs = [features  |-> f,
                    once      |-> "incomplete",
                    value     |-> None,
                    builds    |-> 0,
                    attempted |-> <<>>,
                    failed    |-> FALSE,
                    logged    |-> 0,
                    pc        |-> [t \in Conns |-> "idle"],
                    got       |-> [t \in Conns |-> None]]

NotCerts == <<policy, Harness, chains, body>>

\* a connection dereferences LOAD_CERTS
Access(t) ==
    /\ certs.pc[t] = "idle"
    /\ certs' =
           CASE force(certs.once) = "run" ->
                    [certs EXCEPT !.once = "running", !.pc[t] = "initializing"]
             [] force(certs.once) = "wait" ->
                    [certs EXCEPT !.pc[t] = "waiting"]
             [] force(certs.once) = "read" ->
                    [certs EXCEPT !.pc[t] = "holding", !.got[t] = certs.value]
             [] OTHER ->
                    [certs EXCEPT !.pc[t] = "panicked"]
    /\ UNCHANGED NotCerts

\* the closure runs on the connection that made the first access
RunClosure(t, ok) ==
    /\ certs.pc[t] = "initializing"
    /\ LET src == selected_source(certs.features)
           res == IF ok THEN LoadOk(src) ELSE LoadErr(src)
           r   == match_res(res)
       IN certs' =
              IF r.panicked
              THEN [certs EXCEPT !.once      = "poisoned",
                                 !.builds    = @ + 1,
                                 !.attempted = Append(@, src),
                                 !.failed    = ~ok,
                                 !.pc[t]     = "panicked"]
              ELSE [certs EXCEPT !.once      = "complete",
                                 !.value     = r.value,
                                 !.builds    = @ + 1,
                                 !.attempted = Append(@, src),
                                 !.failed    = ~ok,
                                 !.logged    = @ + r.logged,
                                 !.pc[t]     = "holding",
                                 !.got[t]    = r.value]
    /\ UNCHANGED NotCerts

\* a connection that waited for the closure reads the value
Wake(t) ==
    /\ certs.pc[t] = "waiting"
    /\ certs.once \in {"complete", "poisoned"}
    /\ certs' = IF certs.once = "complete"
                THEN [certs EXCEPT !.pc[t] = "holding", !.got[t] = certs.value]
                ELSE [certs EXCEPT !.pc[t] = "panicked"]
    /\ UNCHANGED NotCerts

\* the connection is done with the reference
Release(t) ==
    /\ certs.pc[t] = "holding"
    /\ certs' = [certs EXCEPT !.pc[t] = "idle"]
    /\ UNCHANGED NotCerts

NextCerts ==
    \/ \E t \in Conns : Access(t)
    \/ \E t \in Conns, ok \in BOOLEAN : RunClosure(t, ok)
    \/ \E t \in Conns : Wake(t)
    \/ \E t \in Conns : Release(t)

SpecCerts == InitCerts /\ [][NextCerts]_vars

(***************************************************************************)
(* The received body (Incoming of src/src/core/body/mod.rs): the transport *)
(* sends data frames, then at most one trailers frame, then closes; the    *)
(* reader polls the frames one by one.                                     *)
(***************************************************************************)
Data(bytes) == [kind |-> "data", bytes |-> bytes]
Trailers == [kind |-> "trailers", fields |-> <<"x-checksum">>]

\* the chunks the transport sends
Chunks == {<<"a">>, <<"b", "c">>}

InitBody ==
    /\ policy = PolicyDefault
    /\ InitHarness
    /\ chains = NoChains
    /\ certs = NoCerts
    /\ body = [sent      |-> <<>>,
               queue     |-> <<>>,
               delivered |-> <<>>,
               closed    |-> FALSE,
               eos       |-> FALSE]

NotBody == <<policy, Harness, chains, certs>>

TrailersSent == \E i \in DOMAIN body.sent : body.sent[i].kind = "trailers"

\* Sender: a data frame
SendData(bytes) ==
    /\ ~body.closed
    /\ ~TrailersSent
    /\ Len(body.sent) < MaxFrames
    /\ body' = [body EXCEPT !.sent  = Append(@, Data(bytes)),
                            !.queue = Append(@, Data(bytes))]
    /\ UNCHANGED NotBody

\* Sender: the trailers, after the data
SendTrailers ==
    /\ ~body.closed
    /\ ~TrailersSent
    /\ body' = [body EXCEPT !.sent  = Append(@, Trailers),
                            !.queue = Append(@, Trailers)]
    /\ UNCHANGED NotBody

\* Sender dropped: the stream ends
Close ==
    /\ ~body.closed
    /\ body' = [body EXCEPT !.closed = TRUE]
    /\ UNCHANGED NotBody

\* poll_frame joining two data frames that wait together
poll_frame_coalesce(b) ==
    IF b.queue # <<>>
    THEN IF Len(b.queue) >= 2 /\ b.queue[1].kind = "data" /\ b.queue[2].kind = "data"
         THEN [b EXCEPT !.queue     = SubSeq(b.queue, 3, Len(b.queue)),
                        !.delivered = Append(@, Data(b.queue[1].bytes \o b.queue[2].bytes))]
         ELSE [b EXCEPT !.queue = Tail(@), !.delivered = Append(@, Head(b.queue))]
    ELSE IF b.closed THEN [b EXCEPT !.eos = TRUE] ELSE b

\* Incoming::poll_frame: the next frame, the end of the stream, or Pending
poll_frame(b) ==
    IF b.queue # <<>>
    THEN [b EXCEPT !.queue = Tail(@), !.delivered = Append(@, Head(b.queue))]
    ELSE IF b.closed THEN [b EXCEPT !.eos = TRUE] ELSE b

PollFrame ==
    /\ ~body.eos
    /\ body.queue # <<>> \/ body.closed
    /\ body' = poll_frame(body)
    /\ UNCHANGED NotBody

NextBody ==
    \/ \E bytes \in Chunks : SendData(bytes)
    \/ SendTrailers
    \/ Close
    \/ PollFrame

SpecBody == InitBody /\ [][NextBody]_vars

(***************************************************************************)
(* Properties of Policy::check (specification Spec).                       *)
(***************************************************************************)

\* C1: a Limit(max) policy returns Follow when the number of previous URLs is
\* at most max and Error carrying TooManyRedirects ("too many redirects")
\* when it is max+1 or more; it never returns Stop, and nothing but the
\* number of previous URLs decides.
C1_LimitFollowsUpToMax ==
    (policy.inner.kind = "Limit" /\ action # NoAction) =>
        /\ Len(prev) <= policy.inner.max => action = Follow
        /\ Len(prev) >= policy.inner.max + 1 =>
               /\ action.kind = "Error"
               /\ action.cause = TooManyRedirects
               /\ Display(action.cause) = "too many redirects"
        /\ action # Stop

C1_Witness ==
    /\ policy.inner.kind = "Limit"
    /\ policy.inner.max > 0
    /\ Len(prev) = policy.inner.max + 1
    /\ action = Error(TooManyRedirects)

\* C2: Policy::limited(0) returns the too-many-redirects Error for every
\* non-empty history of previous URLs and Follow for the empty history.
C2_LimitZero ==
    (policy = limited(0) /\ action # NoAction) =>
        IF prev = <<>> THEN action = Follow ELSE action = Error(TooManyRedirects)

C2_Witness ==
    /\ policy = limited(0)
    /\ Len(prev) = 1
    /\ action = Error(TooManyRedirects)

\* C3: Policy::none() returns Stop for every attempt, whatever the status,
\* the methods, the next URL and the history are.
C3_NoneStops ==
    (policy = none /\ action # NoAction) => action = Stop

C3_Witness ==
    /\ policy = none
    /\ action = Stop
    /\ Len(prev) > DefaultMax
    /\ args.next_method # args.previous_method

\* C4: with a custom policy each check invokes the closure exactly once and
\* returns the Action the closure produced for the attempt it was given; no
\* hop limit is added, so the closure that stops on host "foo" gives Follow
\* for http://bar/baz and Stop for http://foo/baz at any history length.
C4_CustomVerbatim ==
    (policy.inner.kind = "Custom" /\ action # NoAction) =>
        /\ Len(seen) = 1
        /\ action = CustomCall(policy.inner.f, seen[1])
        /\ policy.inner.f = "stop_on_foo" =>
               action = IF args.next.host = "foo" THEN Stop ELSE Follow

C4_Witness ==
    /\ policy = custom("stop_on_foo")
    /\ action = Follow
    /\ Len(seen) = 1
    /\ Len(prev) > DefaultMax
    /\ args.next.host = "bar"

\* C5 as stated: the Attempt the closure receives exposes exactly the values
\* given to check, not swapped, and previous() does not contain the next URL.
C5_AttemptWithoutNext ==
    (policy.inner.kind = "Custom" /\ action # NoAction) =>
        /\ Len(seen) = 1
        /\ status(seen[1]) = args.status
        /\ next_method(seen[1]) = args.next_method
        /\ url(seen[1]) = args.next
        /\ previous_method(seen[1]) = args.previous_method
        /\ previous(seen[1]) = prev
        /\ \A i \in DOMAIN previous(seen[1]) : previous(seen[1])[i] # url(seen[1])

\* C5 (amended): the Attempt the closure receives exposes exactly the values
\* given to check, not swapped; previous() is the history as given, to which
\* the next URL has not been appended.
C5_AttemptExposesArgs ==
    (policy.inner.kind = "Custom" /\ action # NoAction) =>
        /\ Len(seen) = 1
        /\ status(seen[1]) = args.status
        /\ next_method(seen[1]) = args.next_method
        /\ url(seen[1]) = args.next
        /\ previous_method(seen[1]) = args.previous_method
        /\ previous(seen[1]) = prev
        /\ Len(previous(seen[1])) = Len(prev)

C5_Witness ==
    /\ policy.inner.kind = "Custom"
    /\ Len(seen) = 1
    /\ args.next_method = "HEAD"
    /\ args.previous_method = "PUT"
    /\ next_method(seen[1]) = "HEAD"
    /\ previous_method(seen[1]) = "PUT"
    /\ \E i \in DOMAIN prev : prev[i] = url(seen[1])

\* C10: Policy::default() decides as Policy::limited(10): Follow with up to 10
\* previous URLs, the too-many-redirects Error with 11 or more.
C10_DefaultIsLimitTen ==
    (policy = PolicyDefault /\ action # NoAction) =>
        /\ policy = limited(10)
        /\ Len(prev) <= 10 => action = Follow
        /\ Len(prev) >= 11 => action = Error(TooManyRedirects)

C10_Witness ==
    /\ policy = PolicyDefault
    /\ Len(prev) = 11
    /\ action = Error(TooManyRedirects)

(***************************************************************************)
(* Properties of Policy::remove_sensitive_headers (specification           *)
(* SpecRedact).                                                            *)
(***************************************************************************)
SensitiveNames ==
    {"authorization", "cookie", "cookie2", "proxy-authorization", "www-authenticate"}

\* the effective port: the explicit port, else the default of the scheme
EffectivePort(u) == IF u.port # None THEN u.port ELSE default_port(u.scheme)

SameOrigin(u, v) == u.host = v.host /\ EffectivePort(u) = EffectivePort(v)

\* C6: when the history is not empty and the next URL differs from the most
\* recent previous URL in host or in effective port, the map is left with
\* none of the five sensitive headers and with every other header as before.
C6_CrossOriginStrips ==
    (redacted # NoRedact /\ prev # <<>>
        /\ ~SameOrigin(redacted[1].next, prev[Len(prev)])) =>
        /\ (DOMAIN headers) \cap SensitiveNames = {}
        /\ DOMAIN headers = (DOMAIN redacted[1].before) \ SensitiveNames
        /\ \A n \in DOMAIN headers : headers[n] = redacted[1].before[n]

C6_Witness ==
    /\ redacted # NoRedact
    /\ prev # <<>>
    /\ redacted[1].next.host = prev[Len(prev)].host
    /\ EffectivePort(redacted[1].next) # EffectivePort(prev[Len(prev)])
    /\ DOMAIN redacted[1].before = HeaderNames
    /\ DOMAIN headers = {ACCEPT}

\* C7: when the next URL and the most recent previous URL have the same host
\* and the same effective port, the whole map is left as it was.
C7_SameOriginKeeps ==
    (redacted # NoRedact /\ prev # <<>>
        /\ SameOrigin(redacted[1].next, prev[Len(prev)])) =>
        headers = redacted[1].before

C7_Witness ==
    /\ redacted # NoRedact
    /\ Len(prev) = 2
    /\ ~SameOrigin(prev[1], prev[2])
    /\ SameOrigin(redacted[1].next, prev[2])
    /\ redacted[1].next.scheme # prev[2].scheme
    /\ DOMAIN headers = HeaderNames

\* C8: when the history of previous URLs is empty the map is left as it was,
\* for every next URL and every content of the map.
C8_EmptyHistoryKeeps ==
    (redacted # NoRedact /\ prev = <<>>) => headers = redacted[1].before

C8_Witness ==
    /\ redacted # NoRedact
    /\ prev = <<>>
    /\ DOMAIN headers = HeaderNames

\* the hop back to the origin of the first URL, from another origin
C9_BackToFirst ==
    /\ redacted # NoRedact
    /\ Len(prev) >= 2
    /\ SameOrigin(redacted[1].next, prev[1])
    /\ ~SameOrigin(redacted[1].next, prev[Len(prev)])

\* C9: redaction is decided against the immediately preceding URL, not the
\* first one: a hop back to the origin of the first URL from another origin
\* strips the sensitive headers, and over any sequence of pushes and
\* redactions a sensitive header that is absent never comes back.
C9_LastHopDecides ==
    /\ [](C9_BackToFirst => (DOMAIN headers) \cap SensitiveNames = {})
    /\ [][\A n \in SensitiveNames :
              n \notin DOMAIN headers => n \notin DOMAIN headers']_vars

C9_Witness ==
    /\ C9_BackToFirst
    /\ redacted[1].next = prev[1]
    /\ AUTHORIZATION \in DOMAIN redacted[1].before
    /\ COOKIE \in DOMAIN redacted[1].before
    /\ DOMAIN headers = {ACCEPT}

(***************************************************************************)
(* Properties of the request chain (specifications SpecChain, SpecLoop     *)
(* and SpecShared).                                                        *)
(***************************************************************************)
ChainIds == DOMAIN chains

\* the outcome of each action, in every state
C11_Outcomes ==
    \A c \in ChainIds :
        LET ch == chains[c] IN
        /\ (ch.state = "done" /\ ch.action = Stop) =>
               /\ ch.status \in StatusCodes
               /\ ch.result = Ok(Response(ch.status, ch.url))
        /\ (ch.state = "done" /\ ch.action.kind = "Error") =>
               ch.result = Err(ch.action.cause)
        /\ ch.result.kind = "Err" => ch.action.kind = "Error"
        /\ (policy = none /\ ch.state = "done" /\ ch.action # NoAction) =>
               /\ ch.result.kind = "Ok"
               /\ ch.result.response.status \in StatusCodes
               /\ ch.issued = 1

\* what a chain does after each action
C11_Steps ==
    \A c \in ChainIds :
        LET ch == chains[c]
            nx == chains'[c]
        IN
        /\ ch.state = "done" => nx = ch
        /\ (ch.state = "decided" /\ nx # ch) =>
               CASE ch.action = Follow ->
                        /\ nx.state = "awaiting"
                        /\ nx.url = ch.loc[1]
                        /\ nx.issued = ch.issued + 1
                        /\ nx.result = NoResult
                 [] ch.action = Stop ->
                        /\ nx.state = "done"
                        /\ nx.issued = ch.issued
                        /\ nx.result.kind = "Ok"
                 [] OTHER ->
                        /\ nx.state = "done"
                        /\ nx.issued = ch.issued
                        /\ nx.result = Err(ch.action.cause)

\* C11: Follow issues the next hop; Stop ends the chain with the redirect
\* response as the Ok result; Error is the only action that aborts the chain,
\* at once, with its cause as the result; no hop is issued after Stop or Error.
C11_ThreeOutcomes == []C11_Outcomes /\ [][C11_Steps]_vars

C11_Witness ==
    \E c \in ChainIds :
        /\ policy = custom("stop_on_foo")
        /\ chains[c].state = "done"
        /\ chains[c].action = Stop
        /\ chains[c].issued >= 2
        /\ chains[c].result = Ok(Response(301, chains[c].url))

\* C15: under a Limit policy (the default one included) the chain ends after
\* finitely many hops even when every response is a redirect: the policy
\* returns the too-many-redirects Error.
C15_LimitedChainEnds ==
    (policy.inner.kind = "Limit") ~>
        (\A c \in ChainIds :
            /\ chains[c].state = "done"
            /\ chains[c].result = Err(TooManyRedirects))

C15_Witness ==
    \E c \in ChainIds :
        /\ policy = PolicyDefault
        /\ chains[c].state = "done"
        /\ chains[c].result = Err(TooManyRedirects)
        /\ \E i \in 1..Len(chains[c].urls), j \in 1..Len(chains[c].urls) :
               i < j /\ chains[c].urls[i] = chains[c].urls[j]

\* C17: in a chain whose history starts with the URL of the first request, a
\* Limit(max) policy follows at most max redirects: the redirects 1..max get
\* Follow and redirect max+1 gets the too-many-redirects Error.
C17_AtMostMaxFollowed ==
    policy.inner.kind = "Limit" =>
        \A c \in ChainIds :
            LET ch == chains[c] IN
            /\ ch.urls[1] \in ChainUrls
            /\ Len(ch.urls) - 1 <= policy.inner.max
            /\ ch.state = "decided" =>
                   ch.action = IF Len(ch.urls) <= policy.inner.max
                               THEN Follow
                               ELSE Error(TooManyRedirects)
            /\ ch.result.kind = "Err" =>
                   /\ ch.result.cause = TooManyRedirects
                   /\ Len(ch.urls) - 1 = policy.inner.max

C17_Witness ==
    \E c \in ChainIds :
        /\ policy = PolicyDefault
        /\ chains[c].state = "done"
        /\ chains[c].result = Err(TooManyRedirects)
        /\ chains[c].issued = 11

\* the history holds the URLs of the requests issued, the latest one last
C18_HistoryIsIssued ==
    \A c \in ChainIds :
        /\ Len(chains[c].urls) = chains[c].issued
        /\ chains[c].urls[Len(chains[c].urls)] = chains[c].url

\* the history only grows, by the next URL, and only when a Follow is acted on
C18_HistorySteps ==
    \A c \in ChainIds :
        LET ch == chains[c]
            nx == chains'[c]
        IN
        /\ Len(nx.urls) >= Len(ch.urls)
        /\ SubSeq(nx.urls, 1, Len(ch.urls)) = ch.urls
        /\ nx.urls # ch.urls =>
               /\ ch.state = "decided"
               /\ ch.action = Follow
               /\ nx.urls = Append(ch.urls, ch.loc[1])
        /\ (ch.state = "decided" /\ ch.action = Follow /\ nx # ch) =>
               Len(nx.urls) = Len(ch.urls) + 1
        /\ nx.issued # ch.issued =>
               /\ ch.state = "decided"
               /\ ch.action = Follow
               /\ nx.issued = ch.issued + 1

\* C18: the history of previous URLs is append-only and in issuance order: at
\* every decision its length is the number of requests issued, it grows by
\* exactly one per followed hop and not on Stop or Error, and a request is
\* issued only after the response before it has been evaluated.
C18_AppendOnlyHistory == []C18_HistoryIsIssued /\ [][C18_HistorySteps]_vars

C18_Witness ==
    \E c \in ChainIds :
        /\ chains[c].state = "decided"
        /\ chains[c].action = Follow
        /\ chains[c].issued = 3
        /\ chains[c].urls[1] # chains[c].urls[2]

\* two decisions under a Limit or None policy on histories of one length agree
C19_SameLengthSameAction ==
    policy.inner.kind \in {"Limit", "None"} =>
        \A c \in ChainIds, d \in ChainIds :
            (/\ chains[c].state = "decided"
             /\ chains[d].state = "decided"
             /\ Len(chains[c].urls) = Len(chains[d].urls)) =>
                chains[c].action = chains[d].action

\* a step leaves the policy as it is and touches one chain only
C19_Steps ==
    /\ policy' = policy
    /\ \A c \in ChainIds, d \in ChainIds :
           (c # d /\ chains'[c] # chains[c]) => chains'[d] = chains[d]

\* C19: evaluation leaves the Policy unchanged and, for Limit and None
\* policies, gives one Action per history length; chains that share a Policy
\* do not affect one another's decisions, in any interleaving.
C19_SharedPolicy == []C19_SameLengthSameAction /\ [][C19_Steps]_vars

C19_Witness ==
    /\ policy.inner.kind = "Limit"
    /\ DOMAIN chains = {1, 2}
    /\ chains[1].state = "decided"
    /\ chains[2].state = "decided"
    /\ Len(chains[1].urls) = Len(chains[2].urls)
    /\ chains[1].urls # chains[2].urls
    /\ chains[1].loc # chains[2].loc
    /\ chains[1].action = Follow
    /\ chains[2].action = Follow

\* C20: remove_sensitive_headers only removes: the resulting map is a sub-map
\* of the map it was given (no header added, no value changed), and applying
\* it again with the same next URL and history changes nothing.
C20_OnlyRemoves ==
    redacted # NoRedact =>
        /\ DOMAIN headers \subseteq DOMAIN redacted[1].before
        /\ \A n \in DOMAIN headers : headers[n] = redacted[1].before[n]
        /\ remove_sensitive_headers(headers, redacted[1].next, prev) = headers

C20_Witness ==
    /\ redacted # NoRedact
    /\ DOMAIN redacted[1].before = HeaderNames
    /\ DOMAIN headers = {ACCEPT}
    /\ headers[ACCEPT] = redacted[1].before[ACCEPT]

(***************************************************************************)
(* Properties of the trust store (specification SpecCerts).                *)
(***************************************************************************)

\* the closure has run at most once, by one connection at a time, and every
\* connection that holds the reference holds the one value
C12_OneValue ==
    /\ certs.builds <= 1
    /\ Cardinality({t \in Conns : certs.pc[t] = "initializing"}) <= 1
    /\ certs.builds = 1 <=> certs.once = "complete"
    /\ \A t \in Conns :
           certs.pc[t] = "holding" =>
               /\ certs.once = "complete"
               /\ certs.got[t] = certs.value

\* once built, the store is not rebuilt or changed
C12_Steps ==
    certs.once = "complete" =>
        /\ certs'.once = "complete"
        /\ certs'.value = certs.value
        /\ certs'.builds = certs.builds
        /\ certs'.attempted = certs.attempted

\* C12: LOAD_CERTS is built at most once, on the first access, also when
\* several connections make their first access together; every access sees
\* the same value and the store is never rebuilt or changed afterwards.
C12_BuiltOnce == []C12_OneValue /\ [][C12_Steps]_vars

C12_Witness ==
    /\ certs.once = "complete"
    /\ certs.builds = 1
    /\ \A t \in Conns : certs.pc[t] = "holding" /\ certs.got[t] = Some("native")

\* the result of the build, in every state
C13_FailureIsNone ==
    /\ certs.once # "poisoned"
    /\ \A t \in Conns : certs.pc[t] # "panicked"
    /\ (certs.once = "complete" /\ certs.failed) =>
           /\ certs.value = None
           /\ certs.logged = 1
           /\ \A t \in Conns : certs.pc[t] = "holding" => certs.got[t] = None
    /\ (certs.once = "complete" /\ ~certs.failed) =>
           /\ certs.value # None
           /\ certs.logged = 0

\* the absent store stays: the load is not tried again
C13_Steps ==
    (certs.once = "complete" /\ certs.value = None) =>
        /\ certs'.value = None
        /\ certs'.attempted = certs.attempted
        /\ certs'.logged = certs.logged

\* C13: when loading the root certificates fails the build does not fail:
\* it logs the failure and yields None, which every later access sees and
\* which is not tried again; when loading succeeds it yields the store.
C13_FailedLoadIsTerminal == []C13_FailureIsNone /\ [][C13_Steps]_vars

C13_Witness ==
    /\ certs.once = "complete"
    /\ certs.failed
    /\ certs.value = None
    /\ certs.logged = 1
    /\ \E t \in Conns, u \in Conns :
           /\ t # u
           /\ certs.pc[t] = "holding" /\ certs.got[t] = None
           /\ certs.pc[u] = "holding" /\ certs.got[u] = None

\* the sources of the build, in the order of preference
EnabledSources ==
    (IF "webpki-roots" \in certs.features THEN <<"webpki">> ELSE <<>>)
        \o (IF "native-roots" \in certs.features THEN <<"native">> ELSE <<>>)

\* C14 as stated: the build falls back from the bundled roots to the native
\* store, and yields no store only after the sources have failed in order.
C14_FallsBack ==
    (certs.once = "complete" /\ certs.value = None) =>
        certs.attempted = EnabledSources

\* C14 (amended): one source is compiled in, the bundled roots when that
\* feature is enabled and the native store otherwise; the build tries that
\* source alone and yields no store exactly when it fails.
C14_OneSource ==
    certs.once = "complete" =>
        /\ certs.attempted =
               <<IF "webpki-roots" \in certs.features THEN "webpki" ELSE "native">>
        /\ certs.value = None <=> certs.failed
        /\ certs.value # None => certs.value = Some(certs.attempted[1])

C14_Witness ==
    /\ certs.once = "complete"
    /\ certs.features = {"webpki-roots", "native-roots"}
    /\ certs.attempted = <<"webpki">>
    /\ certs.failed
    /\ certs.value = None

(***************************************************************************)
(* Properties of the received body (specification SpecBody).               *)
(***************************************************************************)

\* the frames delivered are the frames sent, in order and as they were sent
C16_Delivered ==
    /\ body.delivered \o body.queue = body.sent
    /\ \A i \in DOMAIN body.delivered :
           body.delivered[i].kind = "trailers" =>
               /\ i = Len(body.delivered)
               /\ \A j \in 1..(i - 1) : body.delivered[j].kind = "data"
               /\ \A j \in DOMAIN body.sent : body.sent[j].kind = "data" => j < i
    /\ body.eos => body.delivered = body.sent

\* a poll delivers at most one frame, and none after the end of the stream
C16_Steps ==
    /\ Len(body'.delivered) <= Len(body.delivered) + 1
    /\ SubSeq(body'.delivered, 1, Len(body.delivered)) = body.delivered
    /\ body.eos => body'.delivered = body.delivered

\* C16: a received body delivers the frames in the order the transport sent
\* them, neither joined nor split, and the trailers frame only after all data
\* frames and before the end of the stream.
C16_FrameOrder == []C16_Delivered /\ [][C16_Steps]_vars

C16_Witness ==
    /\ body.eos
    /\ Len(body.delivered) = 3
    /\ body.delivered[1] = Data(<<"a">>)
    /\ body.delivered[2] = Data(<<"b", "c">>)
    /\ body.delivered[3] = Trailers

====
